---- MODULE Spec2Model ----
(***************************************************************************)
(* DynamoFx (src/index.js): a fixture bound to one DynamoDB table.  The    *)
(* model holds the fixtures' fields, the requests their methods hand to    *)
(* the document client, the promises those requests return and the tables  *)
(* of the store behind the client.                                         *)
(***************************************************************************)
EXTENDS Integers, Sequences, FiniteSets, TLC

\* ------------------------------------------------------------------ bounds
\* Attribute values are the strings "1" .. "MaxVal", written as numbers.
MaxVal == 1
\* The number of calls made on the fixtures, without awaiting, in one behaviour.
MaxCalls == 2
\* The number of calls of one behaviour whose caller awaits each of them.
MaxAwaited == 4
\* The number of awaited calls of one behaviour that tracks items for cleanup.
MaxLifeCalls == 4
\* The number of items a fixture tracks at most.
MaxTracked == 3
\* The number of calls of one behaviour that mixes tracking with unawaited
\* calls.
MaxFrameCalls == 3
\* The number of keys that the concurrent calls of one behaviour address.
MaxKeys == 3
\* The number of calls of one behaviour that uses every method of a fixture.
MaxFieldCalls == 2
\* Calls made by the callers that track items of every shape.
MaxTrackCalls == 4

\* --------------------------------------------------------------- JS values
\* A JavaScript value is a tagged record, so that values of different types
\* compare unequal: undefined, null, a string, or an object with properties.
Undefined == [type |-> "undefined"]
Null == [type |-> "null"]
Str(s) == [type |-> "string", val |-> s]
Obj(p) == [type |-> "object", props |-> p]

\* The attribute names the fixture looks at, and one it does not.
Attrs == {"id", "partitionKey", "sortKey", "amount"}

\* What an attribute of an item may hold.
AttrVals == {Undefined, Null} \cup {Str(v) : v \in 1..MaxVal}

\* Every object over Attrs: each attribute is missing or holds a value.
Objects == {Obj(p) : p \in UNION {[S -> AttrVals] : S \in SUBSET Attrs}}

\* Everything a caller may pass as keyOrItem.
Inputs == Objects \cup {Undefined, Null} \cup {Str(v) : v \in 1..MaxVal}

\* keyOrItem?.a : undefined for undefined and null (optional chaining), for a
\* string (no such property) and for an object that lacks the property.
Prop(x, a) ==
  IF x.type = "object" /\ a \in DOMAIN x.props THEN x.props[a] ELSE Undefined

\* ------------------------------------------------------------------ getKey
\* The bug of taking the id rule first.
getKeyIdFirst(keyOrItem) ==
  IF Prop(keyOrItem, "id") # Undefined
  THEN Obj([a \in {"id"} |-> Prop(keyOrItem, a)])
  ELSE IF Prop(keyOrItem, "partitionKey") # Undefined
          /\ Prop(keyOrItem, "sortKey") # Undefined
       THEN Obj([a \in {"partitionKey", "sortKey"} |-> Prop(keyOrItem, a)])
       ELSE keyOrItem

\* The bug of an id rule that hands back the whole item.
getKeyIdWhole(keyOrItem) ==
  IF Prop(keyOrItem, "partitionKey") # Undefined
     /\ Prop(keyOrItem, "sortKey") # Undefined
  THEN Obj([a \in {"partitionKey", "sortKey"} |-> Prop(keyOrItem, a)])
  ELSE keyOrItem

\* The bug of no fallback: an input of neither shape still gets an id key.
getKeyNoFallback(keyOrItem) ==
  IF Prop(keyOrItem, "partitionKey") # Undefined
     /\ Prop(keyOrItem, "sortKey") # Undefined
  THEN Obj([a \in {"partitionKey", "sortKey"} |-> Prop(keyOrItem, a)])
  ELSE Obj([a \in {"id"} |-> Prop(keyOrItem, a)])

\* The bug of a composite rule that keeps the other attributes.
getKeyCompositeWhole(keyOrItem) ==
  IF Prop(keyOrItem, "partitionKey") # Undefined
     /\ Prop(keyOrItem, "sortKey") # Undefined
  THEN keyOrItem
  ELSE IF Prop(keyOrItem, "id") # Undefined
       THEN Obj([a \in {"id"} |-> Prop(keyOrItem, a)])
       ELSE keyOrItem

\* The bug of no key extraction: the input is taken to be a key already.
getKeyAsIs(keyOrItem) == keyOrItem

\* The bug of a getKey that takes a missing argument for an empty key.
getKeyOrEmpty(keyOrItem) ==
  IF keyOrItem \in {Null, Undefined}
  THEN Obj([a \in {} |-> Undefined])
  ELSE IF Prop(keyOrItem, "partitionKey") # Undefined
          /\ Prop(keyOrItem, "sortKey") # Undefined
       THEN Obj([a \in {"partitionKey", "sortKey"} |-> Prop(keyOrItem, a)])
       ELSE IF Prop(keyOrItem, "id") # Undefined
            THEN Obj([a \in {"id"} |-> Prop(keyOrItem, a)])
            ELSE keyOrItem

\* The bug of a getKey that wraps each key attribute in its type, as the
\* low-level client wants it ({id: {S: ...}}).
getKeyMarshalled(keyOrItem) ==
  IF Prop(keyOrItem, "partitionKey") # Undefined
     /\ Prop(keyOrItem, "sortKey") # Undefined
  THEN Obj([a \in {"partitionKey", "sortKey"} |->
              Obj([s \in {"S"} |-> Prop(keyOrItem, a)])])
  ELSE IF Prop(keyOrItem, "id") # Undefined
       THEN Obj([a \in {"id"} |-> Obj([s \in {"S"} |-> Prop(keyOrItem, a)])])
       ELSE keyOrItem

getKey(keyOrItem) ==
  IF Prop(keyOrItem, "partitionKey") # Undefined
     /\ Prop(keyOrItem, "sortKey") # Undefined
  THEN Obj([a \in {"partitionKey", "sortKey"} |-> Prop(keyOrItem, a)])
  ELSE IF Prop(keyOrItem, "id") # Undefined
       THEN Obj([a \in {"id"} |-> Prop(keyOrItem, a)])
       ELSE keyOrItem

\* ---------------------------------------------------------------- fixtures
\* The tables of the functional tests: one keyed by id, one keyed by
\* partitionKey and sortKey, and a name no table was created under.
SimpleTable == "test-fixture-table"
CompositeTable == "composite-test-table"
MissingTable == "non-existent-table"
TableNames == {SimpleTable, CompositeTable, MissingTable}
ExistingTables == {SimpleTable, CompositeTable}

\* The key attributes createTable gives a table: id unless a schema is passed.
KeySchema(t) ==
  IF t = CompositeTable THEN {"partitionKey", "sortKey"} ELSE {"id"}

\* One fixture per table, each built by new DynamoFx(connConfig, tableName).
Fixtures == {"simpleFx", "compositeFx", "invalidFx"}
TableArg(f) ==
  CASE f = "simpleFx" -> SimpleTable
    [] f = "compositeFx" -> CompositeTable
    [] OTHER -> MissingTable
ConnConfig == [region |-> "us-east-1", endpoint |-> "http://localhost:8000"]
\* The connection configuration {}.
EmptyConfig == [a \in {} |-> ""]
ConnConfigs == {ConnConfig, EmptyConfig}

VARIABLES
  tableName,  \* fixture -> this.tableName
  db,         \* fixture -> this.db, the document client the constructor built
  data,       \* fixture -> this.data, the items tracked for cleanup
  clients,    \* the DynamoDBClient instances constructed so far, in order
  calls,      \* the method calls made so far, in call order
  requests,   \* the requests the document clients were handed, in order
  promises,   \* request index -> the state of the promise the client returned
  tables,     \* table name -> the rows the store holds
  served,     \* the request indexes in the order the store answered them
  keyIn,      \* the argument of the last getKey call
  keyArg,     \* that argument object as it is after the call
  keyOut      \* what the call returned

fixtureVars == <<tableName, db, data, clients>>
builtVars == <<tableName, db, clients>>
clientVars == <<calls, requests, promises>>
storeVars == <<tables, served>>
keyVars == <<keyIn, keyArg, keyOut>>
vars == <<tableName, db, data, clients, calls, requests, promises, tables,
          served, keyIn, keyArg, keyOut>>

\* The bug of a constructor that tracks its connection configuration.
DynamoFxTracksConfig(connConfig, name, f) ==
  [tableName |-> name,
   db |-> [client |-> f, config |-> connConfig],
   data |-> <<connConfig>>,
   built |-> <<[client |-> f, config |-> connConfig]>>]

\* The bug of a constructor that fills an empty configuration with defaults.
DynamoFxWithDefaults(connConfig, name, f) ==
  [tableName |-> name,
   db |-> [client |-> f,
           config |-> IF connConfig = EmptyConfig THEN ConnConfig ELSE connConfig],
   data |-> <<>>,
   built |-> <<[client |-> f,
                config |-> IF connConfig = EmptyConfig THEN ConnConfig ELSE connConfig]>>]

\* The constructor: super() leaves data empty, then tableName is set, one
\* DynamoDBClient is built from connConfig and its document client kept as db.
DynamoFx(connConfig, name, f) ==
  [tableName |-> name,
   db |-> [client |-> f, config |-> connConfig],
   data |-> <<>>,
   built |-> <<[client |-> f, config |-> connConfig]>>]

NoCall == [type |-> "nocall"]

Init ==
  /\ tableName = [f \in Fixtures |-> DynamoFx(ConnConfig, TableArg(f), f).tableName]
  /\ db = [f \in Fixtures |-> DynamoFx(ConnConfig, TableArg(f), f).db]
  /\ data = [f \in Fixtures |-> DynamoFx(ConnConfig, TableArg(f), f).data]
  /\ clients = DynamoFx(ConnConfig, TableArg("simpleFx"), "simpleFx").built
                 \o DynamoFx(ConnConfig, TableArg("compositeFx"), "compositeFx").built
                 \o DynamoFx(ConnConfig, TableArg("invalidFx"), "invalidFx").built
  /\ calls = <<>>
  /\ requests = <<>>
  /\ promises = <<>>
  /\ tables = [t \in ExistingTables |-> {}]
  /\ served = <<>>
  /\ keyIn = NoCall
  /\ keyArg = NoCall
  /\ keyOut = NoCall

\* A test constructs fixture f: the fields of the new object are those the
\* constructor sets, and the client it built is one more client.
Construct(f, connConfig, name) ==
  /\ f \notin DOMAIN tableName
  /\ tableName' = tableName @@ (f :> DynamoFx(connConfig, name, f).tableName)
  /\ db' = db @@ (f :> DynamoFx(connConfig, name, f).db)
  /\ data' = data @@ (f :> DynamoFx(connConfig, name, f).data)
  /\ clients' = clients \o DynamoFx(connConfig, name, f).built
  /\ calls' = Append(calls,
                [fixture |-> f, method |-> "constructor",
                 arg |-> [connConfig |-> connConfig, tableName |-> name],
                 first |-> Len(requests) + 1,
                 last |-> Len(requests),
                 returns |-> 0])
  /\ UNCHANGED <<requests, promises, storeVars, keyVars>>

\* No fixture is constructed yet; the tables are as after createTable.
InitUnbuilt ==
  /\ tableName = <<>>
  /\ db = <<>>
  /\ data = <<>>
  /\ clients = <<>>
  /\ calls = <<>>
  /\ requests = <<>>
  /\ promises = <<>>
  /\ tables = [t \in ExistingTables |-> {}]
  /\ served = <<>>
  /\ keyIn = NoCall
  /\ keyArg = NoCall
  /\ keyOut = NoCall

\* ------------------------------------------------------- the fixture's calls
\* this.db.put(params), this.db.delete(params), this.db.get(params): the
\* request the document client is handed.  The client returns its promise.
Request(client, op, params) == [client |-> client, op |-> op, params |-> params]

\* A method is modelled by the requests it issues, in order, and by what it
\* returns: returns = n for the promise of its n-th request, 0 for undefined.
\* The bug of an insert that stores only the key attributes of the item.
insertKeyOnly(f, item) ==
  [issued |-> <<Request(db[f], "put",
                        [TableName |-> tableName[f], Item |-> getKey(item)])>>,
   returns |-> 1]

\* The bug of a table name shared by every fixture instead of this.tableName.
insertSharedTable(f, item) ==
  [issued |-> <<Request(db[f], "put",
                        [TableName |-> SimpleTable, Item |-> item])>>,
   returns |-> 1]

\* The bug of a missing return: the request is issued, undefined is returned.
insertNoReturn(f, item) ==
  [issued |-> <<Request(db[f], "put",
                        [TableName |-> tableName[f], Item |-> item])>>,
   returns |-> 0]

\* The bug of an insert that sends its put a second time.
insertTwice(f, item) ==
  [issued |-> <<Request(db[f], "put", [TableName |-> tableName[f], Item |-> item]),
                Request(db[f], "put", [TableName |-> tableName[f], Item |-> item])>>,
   returns |-> 2]

insert(f, item) ==
  [issued |-> <<Request(db[f], "put",
                        [TableName |-> tableName[f], Item |-> item])>>,
   returns |-> 1]

\* The bug of a remove copied from get: it asks the client to get the key.
removeAsGet(f, keyOrItem) ==
  LET key == getKey(keyOrItem)
  IN [issued |-> <<Request(db[f], "get",
                           [TableName |-> tableName[f], Key |-> key])>>,
      returns |-> 1]

\* The bug of a remove that calls put with the key where it should call delete.
removeAsPut(f, keyOrItem) ==
  [issued |-> <<Request(db[f], "put",
                        [TableName |-> tableName[f], Item |-> getKey(keyOrItem)])>>,
   returns |-> 1]

\* The bug of a remove that passes its argument on as the key.
removeRaw(f, keyOrItem) ==
  [issued |-> <<Request(db[f], "delete",
                        [TableName |-> tableName[f], Key |-> keyOrItem])>>,
   returns |-> 1]

remove(f, keyOrItem) ==
  LET key == getKey(keyOrItem)
  IN [issued |-> <<Request(db[f], "delete",
                           [TableName |-> tableName[f], Key |-> key])>>,
      returns |-> 1]

\* The bug of a get that passes its argument on as the key.
getRaw(f, keyOrItem) ==
  [issued |-> <<Request(db[f], "get",
                        [TableName |-> tableName[f], Key |-> keyOrItem])>>,
   returns |-> 1]

get(f, keyOrItem) ==
  LET key == getKey(keyOrItem)
  IN [issued |-> <<Request(db[f], "get",
                           [TableName |-> tableName[f], Key |-> key])>>,
      returns |-> 1]

Pending == [state |-> "pending"]
Fulfilled(v) == [state |-> "fulfilled", value |-> v]
Rejected(e) == [state |-> "rejected", reason |-> e]

\* The caller makes a call: the method's requests reach the client at once,
\* each with a pending promise, and the call is recorded with the promise it
\* returned (0 when it returned undefined).
\* The bug of a method that hands its request to the client out of turn,
\* ahead of the requests of earlier calls.
InvokeOutOfTurn(f, method, arg, r) ==
  /\ requests' = r.issued \o requests
  /\ promises' = promises \o [i \in 1..Len(r.issued) |-> Pending]
  /\ calls' = Append(calls,
                [fixture |-> f, method |-> method, arg |-> arg,
                 first |-> Len(requests) + 1,
                 last |-> Len(requests) + Len(r.issued),
                 returns |-> IF r.returns = 0 THEN 0
                             ELSE Len(requests) + r.returns])
  /\ UNCHANGED <<fixtureVars, storeVars, keyVars>>

Invoke(f, method, arg, r) ==
  /\ requests' = requests \o r.issued
  /\ promises' = promises \o [i \in 1..Len(r.issued) |-> Pending]
  /\ calls' = Append(calls,
                [fixture |-> f, method |-> method, arg |-> arg,
                 first |-> Len(requests) + 1,
                 last |-> Len(requests) + Len(r.issued),
                 returns |-> IF r.returns = 0 THEN 0
                             ELSE Len(requests) + r.returns])
  /\ UNCHANGED <<fixtureVars, storeVars, keyVars>>

\* The bug of an insert that tracks the item it writes.
InsertCallTracking(f, item) ==
  /\ requests' = requests \o insert(f, item).issued
  /\ promises' = promises \o [i \in 1..Len(insert(f, item).issued) |-> Pending]
  /\ calls' = Append(calls,
                [fixture |-> f, method |-> "insert", arg |-> item,
                 first |-> Len(requests) + 1,
                 last |-> Len(requests) + Len(insert(f, item).issued),
                 returns |-> Len(requests) + insert(f, item).returns])
  /\ data' = [data EXCEPT ![f] = Append(@, item)]
  /\ UNCHANGED <<builtVars, storeVars, keyVars>>

InsertCall(f, item) == Invoke(f, "insert", item, insert(f, item))
\* The bug of a remove that builds itself a new client.
RemoveCallReconnecting(f, keyOrItem) ==
  /\ requests' = requests \o remove(f, keyOrItem).issued
  /\ promises' = promises \o [i \in 1..Len(remove(f, keyOrItem).issued) |-> Pending]
  /\ calls' = Append(calls,
                [fixture |-> f, method |-> "remove", arg |-> keyOrItem,
                 first |-> Len(requests) + 1,
                 last |-> Len(requests) + Len(remove(f, keyOrItem).issued),
                 returns |-> Len(requests) + remove(f, keyOrItem).returns])
  /\ db' = [db EXCEPT ![f] = [client |-> "reconnected", config |-> db[f].config]]
  /\ UNCHANGED <<tableName, data, clients, storeVars, keyVars>>

RemoveCall(f, keyOrItem) == Invoke(f, "remove", keyOrItem, remove(f, keyOrItem))
GetCall(f, keyOrItem) == Invoke(f, "get", keyOrItem, get(f, keyOrItem))

\* The bug of a getKey that strips the other attributes off its argument.
GetKeyCallInPlace(keyOrItem) ==
  /\ keyIn' = keyOrItem
  /\ keyArg' = getKey(keyOrItem)
  /\ keyOut' = getKey(keyOrItem)
  /\ UNCHANGED <<fixtureVars, clientVars, storeVars>>

\* A call of getKey alone: it assigns to nothing, so its argument object and
\* every field of every fixture are as before.
GetKeyCall(keyOrItem) ==
  /\ keyIn' = keyOrItem
  /\ keyArg' = keyOrItem
  /\ keyOut' = getKey(keyOrItem)
  /\ UNCHANGED <<fixtureVars, clientVars, storeVars>>

\* ----------------------------------------------------------------- the store
\* An item the store accepts for table t: an object whose key attributes are
\* strings and that holds no undefined value.
ValidItem(t, item) ==
  /\ item.type = "object"
  /\ \A a \in KeySchema(t) : Prop(item, a).type = "string"
  /\ \A a \in DOMAIN item.props : item.props[a] # Undefined

\* A key the store accepts for table t: exactly the key attributes, as strings.
ValidKey(t, key) ==
  /\ key.type = "object"
  /\ DOMAIN key.props = KeySchema(t)
  /\ \A a \in KeySchema(t) : key.props[a].type = "string"

\* The key of a row of table t.
RowKey(t, item) == Obj([a \in KeySchema(t) |-> Prop(item, a)])

\* The bug of a store that takes every row of the table for the row of a key.
RowsAtAny(tbl, t, key) == tbl[t]

RowsAt(tbl, t, key) == {row \in tbl[t] : RowKey(t, row) = key}

PutOutput == [metadata |-> "PutCommandOutput"]
DeleteOutput == [metadata |-> "DeleteCommandOutput"]
GetOutput == [metadata |-> "GetCommandOutput"]
GetOutputWith(row) == [metadata |-> "GetCommandOutput", Item |-> row]

ResourceNotFound == "ResourceNotFoundException: non-existent table"
ValidationError == "ValidationException"
NetworkError == "NetworkingError"

\* The attributes of an item laid over those of the row it replaces.
Merged(item, row) ==
  Obj([a \in DOMAIN item.props \cup DOMAIN row.props |->
         IF a \in DOMAIN item.props THEN item.props[a] ELSE row.props[a]])

\* The bug of a put that updates the row it finds instead of replacing it.
StoreAnswerMerging(r, tbl) ==
  LET t == r.params.TableName
  IN IF t \notin DOMAIN tbl
     THEN [promise |-> Rejected(ResourceNotFound), tables |-> tbl]
     ELSE CASE r.op = "put" ->
                 IF ~ValidItem(t, r.params.Item)
                 THEN [promise |-> Rejected(ValidationError), tables |-> tbl]
                 ELSE [promise |-> Fulfilled(PutOutput),
                       tables |-> [tbl EXCEPT ![t] =
                          (@ \ RowsAt(tbl, t, RowKey(t, r.params.Item)))
                            \cup (IF RowsAt(tbl, t, RowKey(t, r.params.Item)) = {}
                                  THEN {r.params.Item}
                                  ELSE {Merged(r.params.Item, row) :
                                          row \in RowsAt(tbl, t, RowKey(t, r.params.Item))})]]
            [] r.op = "delete" ->
                 IF ~ValidKey(t, r.params.Key)
                 THEN [promise |-> Rejected(ValidationError), tables |-> tbl]
                 ELSE [promise |-> Fulfilled(DeleteOutput),
                       tables |-> [tbl EXCEPT ![t] =
                          @ \ RowsAt(tbl, t, r.params.Key)]]
            [] OTHER ->
                 IF ~ValidKey(t, r.params.Key)
                 THEN [promise |-> Rejected(ValidationError), tables |-> tbl]
                 ELSE [promise |->
                         IF RowsAt(tbl, t, r.params.Key) = {}
                         THEN Fulfilled(GetOutput)
                         ELSE Fulfilled(GetOutputWith(
                                CHOOSE row \in RowsAt(tbl, t, r.params.Key) : TRUE)),
                       tables |-> tbl]

\* How the store answers request r on tables tbl: the promise's outcome and
\* the tables afterwards.
StoreAnswer(r, tbl) ==
  LET t == r.params.TableName
  IN IF t \notin DOMAIN tbl
     THEN [promise |-> Rejected(ResourceNotFound), tables |-> tbl]
     ELSE CASE r.op = "put" ->
                 IF ~ValidItem(t, r.params.Item)
                 THEN [promise |-> Rejected(ValidationError), tables |-> tbl]
                 ELSE [promise |-> Fulfilled(PutOutput),
                       tables |-> [tbl EXCEPT ![t] =
                          (@ \ RowsAt(tbl, t, RowKey(t, r.params.Item)))
                            \cup {r.params.Item}]]
            [] r.op = "delete" ->
                 IF ~ValidKey(t, r.params.Key)
                 THEN [promise |-> Rejected(ValidationError), tables |-> tbl]
                 ELSE [promise |-> Fulfilled(DeleteOutput),
                       tables |-> [tbl EXCEPT ![t] =
                          @ \ RowsAt(tbl, t, r.params.Key)]]
            [] OTHER ->
                 IF ~ValidKey(t, r.params.Key)
                 THEN [promise |-> Rejected(ValidationError), tables |-> tbl]
                 ELSE [promise |->
                         IF RowsAt(tbl, t, r.params.Key) = {}
                         THEN Fulfilled(GetOutput)
                         ELSE Fulfilled(GetOutputWith(
                                CHOOSE row \in RowsAt(tbl, t, r.params.Key) : TRUE)),
                       tables |-> tbl]

\* The store answers a pending request.
Serve(i) ==
  /\ i \in 1..Len(requests)
  /\ promises[i] = Pending
  /\ promises' = [promises EXCEPT ![i] = StoreAnswer(requests[i], tables).promise]
  /\ tables' = StoreAnswer(requests[i], tables).tables
  /\ served' = Append(served, i)
  /\ UNCHANGED <<fixtureVars, calls, requests, keyVars>>

\* A pending request fails before it reaches the store.
Fail(i) ==
  /\ i \in 1..Len(requests)
  /\ promises[i] = Pending
  /\ promises' = [promises EXCEPT ![i] = Rejected(NetworkError)]
  /\ UNCHANGED <<fixtureVars, calls, requests, storeVars, keyVars>>

\* ----------------------------------------------------- the tracking lifecycle
\* provision, cleanup and addData come from the base class Fx of the package
\* fixture-interface.  They are modelled from their contract: provision
\* inserts every item through this.insert and records each item once its
\* insert has fulfilled, cleanup removes every tracked item through
\* this.remove and clears data once every remove has fulfilled, addData
\* appends one item and returns the new length.  Either promise rejects as soon
\* as one of the promises it waits for has rejected.

\* The call of this.insert or this.remove that the base class makes on x.
MethodCall(method, f, x) == IF method = "insert" THEN insert(f, x) ELSE remove(f, x)

\* The calls of one method on every element of xs, in order: the requests they
\* issue and, for each element, the place among these requests of the promise
\* its call returned (0 when the call returned undefined).
RECURSIVE Batch(_, _, _, _)
Batch(method, f, xs, acc) ==
  IF xs = <<>> THEN acc
  ELSE LET r == MethodCall(method, f, Head(xs))
       IN Batch(method, f, Tail(xs),
                [issued |-> acc.issued \o r.issued,
                 waits |-> Append(acc.waits,
                                  IF r.returns = 0 THEN 0
                                  ELSE Len(acc.issued) + r.returns)])

NoBatch == [issued |-> <<>>, waits |-> <<>>]

provision(f, items) == Batch("insert", f, items, NoBatch)

cleanup(f) == Batch("remove", f, data[f], NoBatch)

\* The bug of an addData that puts the item in front.
addDataInFront(f, item) == [data |-> <<item>> \o data[f], returns |-> Len(data[f]) + 1]

addData(f, item) == [data |-> Append(data[f], item), returns |-> Len(data[f]) + 1]

\* A call of provision or cleanup: every request of the batch reaches the
\* client at once.  The call records the promises it waits for, which of
\* the items it has recorded so far (tracked), whether it has cleared data
\* (cleared), and what data was when the call was made (before).
InvokeBatch(f, method, arg, b) ==
  /\ requests' = requests \o b.issued
  /\ promises' = promises \o [i \in 1..Len(b.issued) |-> Pending]
  /\ calls' = Append(calls,
                [fixture |-> f, method |-> method, arg |-> arg,
                 first |-> Len(requests) + 1,
                 last |-> Len(requests) + Len(b.issued),
                 returns |-> 0,
                 waits |-> [k \in 1..Len(b.waits) |->
                              IF b.waits[k] = 0 THEN 0
                              ELSE Len(requests) + b.waits[k]],
                 tracked |-> {},
                 cleared |-> FALSE,
                 before |-> data[f]])
  /\ UNCHANGED <<fixtureVars, storeVars, keyVars>>

ProvisionCall(f, items) == InvokeBatch(f, "provision", items, provision(f, items))

CleanupCall(f) == InvokeBatch(f, "cleanup", data[f], cleanup(f))

\* addData is synchronous: data has the item when the call returns.
AddDataCall(f, item) ==
  /\ data' = [data EXCEPT ![f] = addData(f, item).data]
  /\ calls' = Append(calls,
                [fixture |-> f, method |-> "addData", arg |-> item,
                 first |-> Len(requests) + 1,
                 last |-> Len(requests),
                 returns |-> 0,
                 result |-> addData(f, item).returns,
                 before |-> data[f]])
  /\ UNCHANGED <<builtVars, requests, promises, storeVars, keyVars>>

\* The k-th promise that call c waits for; waiting for undefined is waiting
\* for a promise fulfilled with undefined.
Waited(c, k) ==
  IF calls[c].waits[k] = 0 THEN Fulfilled(Undefined)
  ELSE promises[calls[c].waits[k]]

WaitIds(c) == 1..Len(calls[c].waits)

\* provision records the k-th item once its insert has fulfilled.
ProvisionTrack(c, k) ==
  /\ c \in 1..Len(calls)
  /\ calls[c].method = "provision"
  /\ k \in WaitIds(c) \ calls[c].tracked
  /\ Waited(c, k).state = "fulfilled"
  /\ data' = [data EXCEPT ![calls[c].fixture] = Append(@, calls[c].arg[k])]
  /\ calls' = [calls EXCEPT ![c].tracked = @ \cup {k}]
  /\ UNCHANGED <<builtVars, requests, promises, storeVars, keyVars>>

\* cleanup clears data once every remove has fulfilled.
CleanupClear(c) ==
  /\ c \in 1..Len(calls)
  /\ calls[c].method = "cleanup"
  /\ ~calls[c].cleared
  /\ \A k \in WaitIds(c) : Waited(c, k).state = "fulfilled"
  /\ data' = [data EXCEPT ![calls[c].fixture] = <<>>]
  /\ calls' = [calls EXCEPT ![c].cleared = TRUE]
  /\ UNCHANGED <<builtVars, requests, promises, storeVars, keyVars>>

\* What the caller of call c gets: for provision and cleanup the promise over
\* the whole batch, for addData its number, else the promise the method
\* returned.
Outcome(c) ==
  CASE calls[c].method \in {"provision", "cleanup"} ->
         IF \E k \in WaitIds(c) : Waited(c, k).state = "rejected"
         THEN Rejected((Waited(c, CHOOSE k \in WaitIds(c) :
                                      Waited(c, k).state = "rejected")).reason)
         ELSE IF calls[c].method = "provision"
              THEN IF calls[c].tracked = WaitIds(c)
                   THEN Fulfilled([k \in WaitIds(c) |-> Waited(c, k).value])
                   ELSE Pending
              ELSE IF calls[c].cleared THEN Fulfilled(Undefined) ELSE Pending
    [] calls[c].method = "addData" -> Fulfilled(calls[c].result)
    [] OTHER ->
         IF calls[c].returns = 0 THEN Fulfilled(Undefined)
         ELSE promises[calls[c].returns]

\* ------------------------------------------------------------ specifications
\* What the callers pass: a full item and a bare key of either key shape, and
\* an item that carries both shapes.
Item(S) == Obj([a \in S |-> Str(1)])
CallArgs ==
  {Item({"id"}), Item({"id", "amount"}),
   Item({"partitionKey", "sortKey"}),
   Item({"partitionKey", "sortKey", "amount"}),
   Item({"id", "partitionKey", "sortKey"})}

\* Callers that do not await: any fixture, any argument, requests answered in
\* any order.
Next ==
  \/ Len(calls) < MaxCalls /\ \E f \in Fixtures, x \in CallArgs : InsertCall(f, x)
  \/ Len(calls) < MaxCalls /\ \E f \in Fixtures, x \in CallArgs : RemoveCall(f, x)
  \/ Len(calls) < MaxCalls /\ \E f \in Fixtures, x \in CallArgs : GetCall(f, x)
  \/ \E i \in 1..Len(requests) : Serve(i)
  \/ \E i \in 1..Len(requests) : Fail(i)

Spec == Init /\ [][Next]_vars

\* The composite-key scenario of the functional tests: one caller of the
\* fixture of the composite table, which awaits each call before the next and
\* passes an order item or its bare key.
OrderItem == Item({"partitionKey", "sortKey", "amount"})
OrderKey == Item({"partitionKey", "sortKey"})
OrderArgs == {OrderItem, OrderKey}
AllSettled == \A i \in 1..Len(promises) : promises[i] # Pending

NextAwaited ==
  \/ /\ Len(calls) < MaxAwaited
     /\ AllSettled
     /\ \E x \in OrderArgs : InsertCall("compositeFx", x)
  \/ /\ Len(calls) < MaxAwaited
     /\ AllSettled
     /\ \E x \in OrderArgs : RemoveCall("compositeFx", x)
  \/ /\ Len(calls) < MaxAwaited
     /\ AllSettled
     /\ \E x \in OrderArgs : GetCall("compositeFx", x)
  \/ \E i \in 1..Len(requests) : Serve(i)
  \/ \E i \in 1..Len(requests) : Fail(i)

SpecAwaited == Init /\ [][NextAwaited]_vars

\* getKey alone, over every input.
NextGetKey == \E x \in Inputs : GetKeyCall(x)

SpecGetKey == Init /\ [][NextGetKey]_vars

\* The lifecycle of the functional tests: one caller that awaits each call
\* before the next, provisions and tracks two items of the simple-key table
\* on its fixture, and provisions one item on the fixture of the missing
\* table.
LifeA == Item({"id", "amount"})
LifeB == Obj([a \in {"id"} |-> Str(2)])
LifeItems == {LifeA, LifeB}
ProvisionArgs == {<<>>, <<LifeA>>, <<LifeA, LifeB>>}
LastSettled == IF Len(calls) = 0 THEN TRUE ELSE Outcome(Len(calls)) # Pending
CanCall == Len(calls) < MaxLifeCalls /\ LastSettled
CanTrack(f, n) == Len(data[f]) + n <= MaxTracked

\* The callbacks of a settled promise run before the next answer arrives.
Quiet ==
  /\ \A c \in 1..Len(calls) : \A k \in 1..Len(requests) : ~ENABLED ProvisionTrack(c, k)
  /\ \A c \in 1..Len(calls) : ~ENABLED CleanupClear(c)

NextLifecycle ==
  \/ /\ CanCall
     /\ \E items \in ProvisionArgs :
          CanTrack("simpleFx", Len(items)) /\ ProvisionCall("simpleFx", items)
  \/ CanCall /\ ProvisionCall("invalidFx", <<LifeA>>)
  \/ CanCall /\ CleanupCall("simpleFx")
  \/ /\ CanCall
     /\ CanTrack("simpleFx", 1)
     /\ \E x \in LifeItems : AddDataCall("simpleFx", x)
  \/ CanCall /\ InsertCall("simpleFx", LifeB)
  \/ CanCall /\ RemoveCall("simpleFx", LifeA)
  \/ CanCall /\ GetCall("simpleFx", LifeA)
  \/ \E c \in 1..Len(calls) : \E k \in 1..Len(requests) : ProvisionTrack(c, k)
  \/ \E c \in 1..Len(calls) : CleanupClear(c)
  \/ Quiet /\ \E i \in 1..Len(requests) : Serve(i)

SpecLifecycle == Init /\ [][NextLifecycle]_vars

\* Callers that track items and do not await: calls on the fixture of the
\* simple-key table and on that of the missing table follow each other while
\* earlier requests are pending, succeed or fail, and are answered in any
\* order.
FrameFixtures == {"simpleFx", "invalidFx"}
CanFrame == Len(calls) < MaxFrameCalls

NextFrame ==
  \/ CanFrame /\ \E f \in FrameFixtures : InsertCall(f, LifeA)
  \/ CanFrame /\ \E f \in FrameFixtures : RemoveCall(f, LifeA)
  \/ CanFrame /\ \E f \in FrameFixtures : GetCall(f, LifeA)
  \/ CanFrame /\ \E f \in FrameFixtures : AddDataCall(f, LifeA)
  \/ CanFrame /\ \E f \in FrameFixtures : ProvisionCall(f, <<LifeA>>)
  \/ CanFrame /\ \E f \in FrameFixtures : CleanupCall(f)
  \/ \E c \in 1..Len(calls) : \E k \in 1..Len(requests) : ProvisionTrack(c, k)
  \/ \E c \in 1..Len(calls) : CleanupClear(c)
  \/ Quiet /\ \E i \in 1..Len(requests) : Serve(i)
  \/ Quiet /\ \E i \in 1..Len(requests) : Fail(i)

SpecFrame == Init /\ [][NextFrame]_vars

\* Callers that pass null or undefined, or a key, to any fixture without
\* awaiting.
NullishArgs == {Null, Undefined, Item({"id"})}

NextNullish ==
  \/ Len(calls) < MaxCalls /\ \E f \in Fixtures, x \in NullishArgs : InsertCall(f, x)
  \/ Len(calls) < MaxCalls /\ \E f \in Fixtures, x \in NullishArgs : RemoveCall(f, x)
  \/ Len(calls) < MaxCalls /\ \E f \in Fixtures, x \in NullishArgs : GetCall(f, x)
  \/ \E i \in 1..Len(requests) : Serve(i)
  \/ \E i \in 1..Len(requests) : Fail(i)

SpecNullish == Init /\ [][NextNullish]_vars

\* The mixed concurrent operations of the functional tests: the simple-key
\* table holds two rows put there by the test itself, and one caller makes
\* calls on its fixture without awaiting, each on a key of its own.
ConcKeys == 1..MaxKeys
InitialRow(k) == Obj([a \in {"id", "amount"} |-> IF a = "id" THEN Str(k) ELSE Str(1)])
NewRow(k) == Obj([a \in {"id", "amount"} |-> IF a = "id" THEN Str(k) ELSE Str(2)])
RowId(k) == Obj([a \in {"id"} |-> Str(k)])
InitialRows == {InitialRow(1), InitialRow(2)}

InitPopulated ==
  /\ tableName = [f \in Fixtures |-> DynamoFx(ConnConfig, TableArg(f), f).tableName]
  /\ db = [f \in Fixtures |-> DynamoFx(ConnConfig, TableArg(f), f).db]
  /\ data = [f \in Fixtures |-> DynamoFx(ConnConfig, TableArg(f), f).data]
  /\ clients = DynamoFx(ConnConfig, TableArg("simpleFx"), "simpleFx").built
                 \o DynamoFx(ConnConfig, TableArg("compositeFx"), "compositeFx").built
                 \o DynamoFx(ConnConfig, TableArg("invalidFx"), "invalidFx").built
  /\ calls = <<>>
  /\ requests = <<>>
  /\ promises = <<>>
  /\ tables = [t \in ExistingTables |-> IF t = SimpleTable THEN InitialRows ELSE {}]
  /\ served = <<>>
  /\ keyIn = NoCall
  /\ keyArg = NoCall
  /\ keyOut = NoCall

\* No call made so far addresses key k.
FreshKey(k) == \A c \in 1..Len(calls) : Prop(calls[c].arg, "id") # Str(k)

NextConcurrent ==
  \/ \E k \in ConcKeys : FreshKey(k) /\ InsertCall("simpleFx", NewRow(k))
  \/ \E k \in ConcKeys : FreshKey(k) /\ RemoveCall("simpleFx", RowId(k))
  \/ \E k \in ConcKeys : FreshKey(k) /\ GetCall("simpleFx", RowId(k))
  \/ \E i \in 1..Len(requests) : Serve(i)

SpecConcurrent == InitPopulated /\ [][NextConcurrent]_vars

\* Every method of a fixture: the calls of the callers that track and do not
\* await, and calls of getKey.
CanField == Len(calls) < MaxFieldCalls

NextFields ==
  \/ CanField /\ \E f \in FrameFixtures : InsertCall(f, LifeA)
  \/ CanField /\ \E f \in FrameFixtures : RemoveCall(f, LifeA)
  \/ CanField /\ \E f \in FrameFixtures : GetCall(f, LifeA)
  \/ GetKeyCall(LifeA)
  \/ CanField /\ \E f \in FrameFixtures : AddDataCall(f, LifeA)
  \/ CanField /\ \E f \in FrameFixtures : ProvisionCall(f, <<LifeA>>)
  \/ CanField /\ \E f \in FrameFixtures : CleanupCall(f)
  \/ \E c \in 1..Len(calls) : \E k \in 1..Len(requests) : ProvisionTrack(c, k)
  \/ \E c \in 1..Len(calls) : CleanupClear(c)
  \/ Quiet /\ \E i \in 1..Len(requests) : Serve(i)
  \/ Quiet /\ \E i \in 1..Len(requests) : Fail(i)

SpecFields == Init /\ [][NextFields]_vars

\* Callers that track items of every shape, with or without a key of the
\* fixture's table, and clean up.
TrackedArgs ==
  {Item({"id", "amount"}), Item({"id", "partitionKey", "sortKey"}),
   Item({"amount"})}
TrackingFixtures == {"simpleFx", "compositeFx"}
CanTrackCall == Len(calls) < MaxTrackCalls

NextTracking ==
  \/ /\ CanTrackCall
     /\ \E f \in TrackingFixtures, x \in TrackedArgs : AddDataCall(f, x)
  \/ CanTrackCall /\ \E f \in TrackingFixtures : CleanupCall(f)
  \/ \E c \in 1..Len(calls) : CleanupClear(c)
  \/ Quiet /\ \E i \in 1..Len(requests) : Serve(i)

SpecTracking == Init /\ [][NextTracking]_vars

\* The tests construct their fixtures, with either configuration and any
\* table name, while the fixtures already constructed insert an item.
Built == DOMAIN tableName

NextConstruct ==
  \/ \E f \in Fixtures, connConfig \in ConnConfigs, name \in TableNames :
       Construct(f, connConfig, name)
  \/ Len(requests) < MaxCalls /\ \E f \in Built : InsertCall(f, LifeA)

SpecConstruct == InitUnbuilt /\ [][NextConstruct]_vars

\* ================================================================== claims
\* An attribute is present when reading it does not give undefined.
Has(x, a) == Prop(x, a) # Undefined
HasComposite(x) == Has(x, "partitionKey") /\ Has(x, "sortKey")
IdKey(x) == Obj([a \in {"id"} |-> Prop(x, a)])
CompositeKey(x) == Obj([a \in {"partitionKey", "sortKey"} |-> Prop(x, a)])
KeyCalled == keyIn # NoCall

\* C1 as stated: for every item with an id attribute, getKey returns exactly
\* {id: I.id}.
C1_IdKeyOfEveryItem ==
  (KeyCalled /\ Has(keyIn, "id")) => keyOut = IdKey(keyIn)

\* C1 amended: for every item with an id attribute that does not carry both
\* partitionKey and sortKey, getKey returns exactly {id: I.id}.
C1_IdKey ==
  (KeyCalled /\ Has(keyIn, "id") /\ ~HasComposite(keyIn))
    => keyOut = IdKey(keyIn)

C1_Witness ==
  /\ KeyCalled
  /\ Has(keyIn, "id") /\ ~HasComposite(keyIn)
  /\ Has(keyIn, "amount") /\ Has(keyIn, "partitionKey")
  /\ keyOut = IdKey(keyIn)

\* C2: for every item with both partitionKey and sortKey, getKey returns
\* exactly {partitionKey, sortKey} with the item's values, whatever other
\* attributes the item has.
C2_CompositeKey ==
  (KeyCalled /\ HasComposite(keyIn)) => keyOut = CompositeKey(keyIn)

C2_Witness ==
  /\ KeyCalled
  /\ HasComposite(keyIn) /\ Has(keyIn, "amount") /\ Has(keyIn, "id")
  /\ keyOut = CompositeKey(keyIn)
  /\ keyOut # keyIn

\* C3: an input of neither key shape (not an object, or an object with no id
\* and not both partitionKey and sortKey) is returned as it is.
C3_Fallback ==
  (KeyCalled /\ ~Has(keyIn, "id") /\ ~HasComposite(keyIn)) => keyOut = keyIn

C3_Witness ==
  /\ KeyCalled
  /\ keyIn.type = "object"
  /\ Has(keyIn, "partitionKey") /\ ~Has(keyIn, "sortKey") /\ ~Has(keyIn, "id")
  /\ Has(keyIn, "amount")
  /\ keyOut = keyIn

\* C4: the rules apply in order, first match wins: an input with
\* partitionKey, sortKey and id gives the composite key, without id; the id
\* key is the result only when the composite rule does not match; the input
\* itself is the result only when neither rule matches, so an input that
\* matches a rule gives a key of exactly that rule's attributes.
C4_DecisionOrder ==
  KeyCalled =>
    /\ (HasComposite(keyIn) /\ Has(keyIn, "id"))
         => (keyOut = CompositeKey(keyIn) /\ "id" \notin DOMAIN keyOut.props)
    /\ (Has(keyIn, "id") /\ keyOut = IdKey(keyIn)) => ~HasComposite(keyIn)
    /\ (HasComposite(keyIn) \/ Has(keyIn, "id"))
         => /\ keyOut.type = "object"
            /\ DOMAIN keyOut.props \in {{"id"}, {"partitionKey", "sortKey"}}
            /\ (DOMAIN keyOut.props = {"id"}) = ~HasComposite(keyIn)

C4_Witness ==
  /\ KeyCalled
  /\ HasComposite(keyIn) /\ Has(keyIn, "id")
  /\ keyOut = CompositeKey(keyIn)
  /\ keyOut # IdKey(keyIn)

\* C5: a getKey call leaves its argument as it was, changes no field of any
\* fixture, issues no request and changes no table, and a call with the same
\* input as the call before returns the same result.
C5_Pure ==
  [][/\ keyArg' = keyIn'
     /\ UNCHANGED <<tableName, db, data>>
     /\ UNCHANGED <<calls, requests, promises, tables, served>>
     /\ (keyIn' = keyIn => keyOut' = keyOut)]_keyVars

C5_Witness ==
  /\ KeyCalled
  /\ keyIn.type = "object"
  /\ keyOut # keyIn
  /\ keyArg = keyIn
  /\ data = [f \in Fixtures |-> <<>>]
  /\ requests = <<>>

\* ------------------------------------------------- claims about the calls
CallIds == 1..Len(calls)
\* The request a call issued, and how the promise it returned has settled
\* (a call that returned undefined gives its caller undefined at once).
Req(c) == calls[c].first
CallOutcome(c) ==
  IF calls[c].returns = 0 THEN Fulfilled(Undefined)
  ELSE promises[calls[c].returns]
CallTable(c) == tableName[calls[c].fixture]

\* The place of request i in the order the store answered, 0 if it has not.
ServedPos(i) ==
  IF \E k \in 1..Len(served) : served[k] = i
  THEN CHOOSE k \in 1..Len(served) : served[k] = i
  ELSE 0
WasServed(c) == ServedPos(Req(c)) > 0

\* Request i is a put or a delete the store applied to row key of table t.
WritesRow(i, t, key) ==
  /\ promises[i].state = "fulfilled"
  /\ requests[i].params.TableName = t
  /\ \/ requests[i].op = "put" /\ RowKey(t, requests[i].params.Item) = key
     \/ requests[i].op = "delete" /\ requests[i].params.Key = key

\* The store answered call d after call c, and applied no other write to the
\* row in between.
ServedNextOnRow(c, d, t, key) ==
  /\ WasServed(c)
  /\ ServedPos(Req(d)) > ServedPos(Req(c))
  /\ \A k \in (ServedPos(Req(c)) + 1)..(ServedPos(Req(d)) - 1) :
       ~WritesRow(served[k], t, key)

\* No write to the row was applied after the store answered call c.
LastOnRow(c, t, key) ==
  \A k \in (ServedPos(Req(c)) + 1)..Len(served) : ~WritesRow(served[k], t, key)

\* get(getKey(item)) follows a successful insert(item) on the same fixture.
RoundTrip(c, d) ==
  /\ calls[c].method = "insert"
  /\ CallOutcome(c).state = "fulfilled"
  /\ calls[d].method = "get"
  /\ calls[d].fixture = calls[c].fixture
  /\ calls[d].arg = getKey(calls[c].arg)
  /\ WasServed(d)
  /\ ServedNextOnRow(c, d, CallTable(c), RowKey(CallTable(c), calls[c].arg))

\* C6 as stated: after insert(item) succeeds, get(getKey(item)) on the same
\* fixture, once the store has answered it with no other write to the row in
\* between, returns a result whose Item is item.
C6_RoundTripOfEveryItem ==
  \A c, d \in CallIds :
    RoundTrip(c, d) => CallOutcome(d) = Fulfilled(GetOutputWith(calls[c].arg))

\* C6 amended: the same, for an item whose key as getKey extracts it is the
\* key of its row in the fixture's table.
C6_RoundTrip ==
  \A c, d \in CallIds :
    (RoundTrip(c, d)
       /\ getKey(calls[c].arg) = RowKey(CallTable(c), calls[c].arg))
      => CallOutcome(d) = Fulfilled(GetOutputWith(calls[c].arg))

C6_Witness ==
  \E c, d \in CallIds :
    /\ RoundTrip(c, d)
    /\ getKey(calls[c].arg) = RowKey(CallTable(c), calls[c].arg)
    /\ Has(calls[c].arg, "amount")
    /\ CallOutcome(d) = Fulfilled(GetOutputWith(calls[c].arg))

\* C7: a remove of a key of the fixture's table, once the store has answered
\* it, has succeeded whether or not the row was there (so also the second of
\* two removes in succession), and the row is absent until it is put again.
C7_RemoveIdempotent ==
  \A d \in CallIds :
    (/\ calls[d].method = "remove"
     /\ CallTable(d) \in ExistingTables
     /\ ValidKey(CallTable(d), getKey(calls[d].arg))
     /\ WasServed(d))
      => /\ CallOutcome(d) = Fulfilled(DeleteOutput)
         /\ LastOnRow(d, CallTable(d), getKey(calls[d].arg))
              => RowsAt(tables, CallTable(d), getKey(calls[d].arg)) = {}

C7_Witness ==
  \E a, c, d \in CallIds :
    /\ a < c /\ c < d
    /\ calls[a].method = "insert" /\ CallOutcome(a).state = "fulfilled"
    /\ calls[c].method = "remove" /\ calls[d].method = "remove"
    /\ calls[c].arg = OrderKey /\ calls[d].arg = OrderKey
    /\ CallOutcome(c) = Fulfilled(DeleteOutput)
    /\ CallOutcome(d) = Fulfilled(DeleteOutput)
    /\ tables[CompositeTable] = {}

\* Every request of every call names the table of the fixture it was made on.
OwnTableOnly ==
  \A c \in CallIds : \A i \in calls[c].first..calls[c].last :
    requests[i].params.TableName = tableName[calls[c].fixture]

\* Request i was issued by a call on a fixture of table t.
IssuedFor(i, t) ==
  \E c \in CallIds : i \in calls[c].first..calls[c].last /\ CallTable(c) = t

\* The same item went in through both fixtures and nothing else was written.
SameItemInBoth(x) ==
  /\ \E c, d \in CallIds :
       /\ calls[c].fixture = "simpleFx" /\ calls[d].fixture = "compositeFx"
       /\ calls[c].method = "insert" /\ calls[d].method = "insert"
       /\ calls[c].arg = x /\ calls[d].arg = x
       /\ CallOutcome(c).state = "fulfilled"
       /\ CallOutcome(d).state = "fulfilled"
  /\ \A i \in 1..Len(requests) :
       (promises[i].state = "fulfilled" /\ requests[i].op # "get")
         => (requests[i].op = "put" /\ requests[i].params.Item = x)

\* C8: every request of a fixture carries that fixture's tableName; a table
\* changes only when the store answers a request issued through a fixture of
\* that table; and the same item inserted through the fixtures of two tables
\* leaves exactly one row, that item, in each.
C8_TableIsolation ==
  [][/\ OwnTableOnly'
     /\ \A t \in ExistingTables :
          tables'[t] # tables[t]
            => \E i \in 1..Len(requests) :
                 served' = Append(served, i) /\ IssuedFor(i, t)
     /\ \A x \in CallArgs :
          SameItemInBoth(x)'
            => (tables'[SimpleTable] = {x} /\ tables'[CompositeTable] = {x})]_vars

C8_Witness ==
  \E x \in CallArgs :
    /\ SameItemInBoth(x)
    /\ tables[SimpleTable] = {x}
    /\ tables[CompositeTable] = {x}
    /\ \E i, j \in 1..Len(requests) :
         /\ requests[i].params.TableName = SimpleTable
         /\ requests[j].params.TableName = CompositeTable

\* Call c is a call of method m with argument x on the composite table.
OnComposite(c, m, x) ==
  /\ calls[c].method = m
  /\ calls[c].arg = x
  /\ CallTable(c) = CompositeTable

\* C9: on the composite-key table, for an item with other attributes besides
\* its key: a get with the bare key answered after a successful insert
\* returns the full item; a remove called with the full item asks for the
\* bare key, succeeds and leaves the row absent; and a get of that key
\* answered after the remove returns a result without Item.
C9_CompositeScenario ==
  \A x \in CallArgs :
    (HasComposite(x) /\ x # CompositeKey(x)) =>
      \A c, d \in CallIds :
        /\ (/\ OnComposite(c, "insert", x)
            /\ CallOutcome(c).state = "fulfilled"
            /\ OnComposite(d, "get", CompositeKey(x))
            /\ WasServed(d)
            /\ ServedNextOnRow(c, d, CompositeTable, CompositeKey(x)))
             => CallOutcome(d) = Fulfilled(GetOutputWith(x))
        /\ (OnComposite(c, "remove", x) /\ WasServed(c))
             => /\ requests[Req(c)].params.Key = CompositeKey(x)
                /\ CallOutcome(c) = Fulfilled(DeleteOutput)
                /\ LastOnRow(c, CompositeTable, CompositeKey(x))
                     => RowsAt(tables, CompositeTable, CompositeKey(x)) = {}
        /\ (/\ OnComposite(c, "remove", x)
            /\ CallOutcome(c).state = "fulfilled"
            /\ OnComposite(d, "get", CompositeKey(x))
            /\ WasServed(d)
            /\ ServedNextOnRow(c, d, CompositeTable, CompositeKey(x)))
             => CallOutcome(d) = Fulfilled(GetOutput)

C9_Witness ==
  /\ Len(calls) >= 4
  /\ OnComposite(1, "insert", OrderItem)
  /\ OnComposite(2, "get", OrderKey)
  /\ OnComposite(3, "remove", OrderItem)
  /\ OnComposite(4, "get", OrderKey)
  /\ CallOutcome(1) = Fulfilled(PutOutput)
  /\ CallOutcome(2) = Fulfilled(GetOutputWith(OrderItem))
  /\ CallOutcome(3) = Fulfilled(DeleteOutput)
  /\ CallOutcome(4) = Fulfilled(GetOutput)
  /\ tables[CompositeTable] = {}

\* C10: when the client's promise for the request of an insert, remove or get
\* call is rejected with an error, the promise the call returned is rejected
\* with that same error.
C10_ErrorPassthrough ==
  \A c \in CallIds :
    promises[Req(c)].state = "rejected" => CallOutcome(c) = promises[Req(c)]

C10_Witness ==
  \E c, d \in CallIds :
    /\ calls[c].method = "insert"
    /\ CallOutcome(c) = Rejected(ResourceNotFound)
    /\ calls[d].method \in {"remove", "get"}
    /\ CallOutcome(d) \in {Rejected(ValidationError), Rejected(NetworkError)}


\* C12: remove and get take a full item or its bare key alike: a call with
\* an item and a call of the same method on the same fixture with getKey of
\* that item each issue one request, and the two requests are equal.
C12_ItemOrKey ==
  \A c, d \in CallIds :
    (/\ calls[c].method \in {"remove", "get"}
     /\ calls[d].method = calls[c].method
     /\ calls[d].fixture = calls[c].fixture
     /\ calls[d].arg = getKey(calls[c].arg))
    => /\ calls[c].last = calls[c].first
       /\ calls[d].last = calls[d].first
       /\ requests[Req(c)] = requests[Req(d)]

\* remove was called with a full item of the simple-key table and with its
\* bare key.
C12_Witness ==
  \E c, d \in CallIds :
    /\ calls[c].method = "remove" /\ calls[d].method = "remove"
    /\ calls[c].fixture = "simpleFx" /\ calls[d].fixture = "simpleFx"
    /\ calls[c].arg = Item({"id", "amount"})
    /\ calls[d].arg = Item({"id"})

\* ---------------------------------------------- claims about the tracked data
\* The step is a call of one of the methods M.
IsCallOf(M) == Len(calls') = Len(calls) + 1 /\ calls'[Len(calls')].method \in M

\* The step settles a request.
Settles == \E i \in 1..Len(promises) : promises'[i] # promises[i]

\* The step is one of addData, provision or cleanup: a call of addData, or
\* provision recording an item, or cleanup clearing data.
TrackingStep ==
  \/ IsCallOf({"addData"})
  \/ \E c \in 1..Len(calls) :
       calls[c].method \in {"provision", "cleanup"} /\ calls'[c] # calls[c]

\* C11: a call of insert, remove or get and the settling of a request, fulfilled
\* or rejected, leave data of every fixture as it was, whatever else is in
\* flight; a step that changes data is a step of addData, provision or cleanup.
C11_DataFrame ==
  [][/\ (IsCallOf({"insert", "remove", "get"}) \/ Settles) => data' = data
     /\ data' # data => TrackingStep]_vars

\* A fixture tracks an item, and after that an insert of it fulfilled and a
\* remove of it was rejected, and data holds the tracked item alone.
C11_Witness ==
  \E b, c, d \in CallIds :
    /\ b < c /\ b < d
    /\ \A x \in {b, c, d} : calls[x].fixture = "simpleFx"
    /\ calls[b].method = "addData"
    /\ calls[c].method = "insert" /\ promises[Req(c)].state = "fulfilled"
    /\ calls[d].method = "remove" /\ promises[Req(d)].state = "rejected"
    /\ data["simpleFx"] = <<LifeA>>

\* Call c is the last call made and its caller has its result.
JustResolved(c) == c = Len(calls) /\ Outcome(c).state = "fulfilled"

\* C13: when provision(items), called on a fixture whose data was empty, has
\* resolved, the fixture's table holds every one of the items and data holds
\* exactly these items, Len(items) entries; provision of no items issues no
\* request and resolves with data as it was.
C13_Provision ==
  \A c \in CallIds :
    calls[c].method = "provision" =>
      LET f == calls[c].fixture
          items == calls[c].arg
      IN /\ (JustResolved(c) /\ calls[c].before = <<>>) =>
              /\ \A k \in 1..Len(items) : items[k] \in tables[tableName[f]]
              /\ Len(data[f]) = Len(items)
              /\ \A k \in 1..Len(items) : \E j \in 1..Len(data[f]) : data[f][j] = items[k]
         /\ items = <<>> =>
              /\ calls[c].last < calls[c].first
              /\ JustResolved(c) => data[f] = calls[c].before

\* provision of no items resolved, and after it provision of two items resolved
\* on the fixture whose data was empty, the second item answered first.
C13_Witness ==
  \E c, d \in CallIds :
    /\ c < d
    /\ calls[c].method = "provision" /\ calls[c].arg = <<>>
    /\ calls[d].method = "provision" /\ calls[d].arg = <<LifeA, LifeB>>
    /\ calls[d].fixture = "simpleFx"
    /\ calls[d].before = <<>>
    /\ JustResolved(d)
    /\ data["simpleFx"] = <<LifeB, LifeA>>

\* C14: when cleanup has resolved, data of its fixture is empty and the
\* fixture's table holds no row under the key of any item that was tracked
\* when cleanup was called.
C14_Cleanup ==
  \A c \in CallIds :
    (calls[c].method = "cleanup" /\ JustResolved(c)) =>
      LET f == calls[c].fixture
          t == tableName[f]
          items == calls[c].arg
      IN /\ data[f] = <<>>
         /\ \A k \in 1..Len(items) : RowsAt(tables, t, RowKey(t, items[k])) = {}

\* The functional test: provision of two items, insert and addData of an
\* item, then cleanup of the three tracked items has resolved.
C14_Witness ==
  /\ Len(calls) = 4
  /\ \A c \in CallIds : calls[c].fixture = "simpleFx"
  /\ calls[1].method = "provision" /\ calls[1].arg = <<LifeA, LifeB>>
  /\ calls[2].method = "insert"
  /\ calls[3].method = "addData"
  /\ calls[4].method = "cleanup" /\ Len(calls[4].arg) = 3
  /\ JustResolved(4)
  /\ tables[SimpleTable] = {}

\* C15: when the client has rejected every insert of provision(items), called
\* with items on a fixture whose data was empty, provision is rejected with
\* the client's error and data of the fixture is still empty.
C15_ProvisionError ==
  \A c \in CallIds :
    (/\ calls[c].method = "provision"
     /\ c = Len(calls)
     /\ calls[c].before = <<>>
     /\ calls[c].arg # <<>>
     /\ calls[c].last >= calls[c].first
     /\ \A i \in calls[c].first..calls[c].last : promises[i].state = "rejected")
    => /\ Outcome(c).state = "rejected"
       /\ \E i \in calls[c].first..calls[c].last : Outcome(c).reason = promises[i].reason
       /\ data[calls[c].fixture] = <<>>

\* provision of an item on the fixture of the missing table was rejected with
\* the store's error.
C15_Witness ==
  \E c \in CallIds :
    /\ calls[c].method = "provision"
    /\ calls[c].fixture = "invalidFx"
    /\ calls[c].arg = <<LifeA>>
    /\ c = Len(calls)
    /\ Outcome(c) = Rejected(ResourceNotFound)
    /\ data["invalidFx"] = <<>>

\* C16: a call addData(item) leaves data of its fixture as it was with item
\* appended at the end, leaves data of the other fixtures alone, issues no
\* request, settles none, and returns the new length of data.
C16_AddData ==
  [][IsCallOf({"addData"}) =>
       LET c == calls'[Len(calls')]
           f == c.fixture
       IN /\ data'[f] = Append(data[f], c.arg)
          /\ \A g \in Fixtures \ {f} : data'[g] = data[g]
          /\ requests' = requests
          /\ promises' = promises
          /\ tables' = tables
          /\ c.result = Len(data'[f])]_vars

\* addData was called on a fixture that tracked two different items, and
\* returned 3.
C16_Witness ==
  \E c \in CallIds :
    /\ calls[c].method = "addData"
    /\ calls[c].before = <<LifeA, LifeB>>
    /\ calls[c].arg = LifeB
    /\ calls[c].result = 3
    /\ c = Len(calls)
    /\ data[calls[c].fixture] = <<LifeA, LifeB, LifeB>>

\* The steps of fixture f that track: a call of addData, or provision
\* recording an item; and the step of cleanup that clears.
AddsTo(f) ==
  \/ IsCallOf({"addData"}) /\ calls'[Len(calls')].fixture = f
  \/ \E c \in 1..Len(calls) :
       /\ calls[c].method = "provision"
       /\ calls[c].fixture = f
       /\ calls'[c].tracked # calls[c].tracked

ClearsOf(f) ==
  \E c \in 1..Len(calls) :
    /\ calls[c].method = "cleanup"
    /\ calls[c].fixture = f
    /\ calls'[c].cleared # calls[c].cleared

\* C17: data of every fixture is empty after construction; a step that changes
\* data of a fixture either makes it longer, and then is a step of addData or
\* provision on that fixture which keeps the earlier entries in place, or
\* makes it shorter, and then is the step of cleanup on that fixture which
\* leaves it empty.
C17_TrackingLifecycle ==
  /\ \A f \in Fixtures : data[f] = <<>>
  /\ [][\A f \in Fixtures :
          data'[f] # data[f] =>
            \/ /\ Len(data'[f]) > Len(data[f])
               /\ SubSeq(data'[f], 1, Len(data[f])) = data[f]
               /\ AddsTo(f)
            \/ /\ Len(data'[f]) < Len(data[f])
               /\ data'[f] = <<>>
               /\ ClearsOf(f)]_vars

\* data grew through addData and through provision and was then emptied by
\* cleanup.
C17_Witness ==
  /\ Len(calls) = 3
  /\ \A c \in CallIds : calls[c].fixture = "simpleFx"
  /\ calls[1].method = "addData"
  /\ calls[2].method = "provision" /\ calls[2].tracked = {1, 2}
  /\ calls[3].method = "cleanup" /\ Len(calls[3].arg) = 3 /\ calls[3].cleared
  /\ data["simpleFx"] = <<>>

\* ------------------------------------------------ claims about absent rows
\* When the store answered call d, table t held no row under key: no write
\* to the row had been applied, or the last one applied was a delete.
AbsentWhenServed(d, t, key) ==
  LET W == {k \in 1..(ServedPos(Req(d)) - 1) : WritesRow(served[k], t, key)}
  IN \/ W = {}
     \/ requests[served[CHOOSE k \in W : \A j \in W : j <= k]].op = "delete"

\* C20: a get whose argument names a key of the fixture's table, answered by
\* the store when the table held no row under that key, is fulfilled, not
\* rejected, with a result that has no Item.
C20_GetAbsent ==
  \A d \in CallIds :
    (/\ calls[d].method = "get"
     /\ CallTable(d) \in ExistingTables
     /\ ValidKey(CallTable(d), getKey(calls[d].arg))
     /\ WasServed(d)
     /\ AbsentWhenServed(d, CallTable(d), getKey(calls[d].arg)))
      => /\ CallOutcome(d).state = "fulfilled"
         /\ "Item" \notin DOMAIN CallOutcome(d).value
         /\ CallOutcome(d) = Fulfilled(GetOutput)

\* An order was inserted, removed and then looked up by the full item; the
\* get was fulfilled without an Item.
C20_Witness ==
  \E b, c, d \in CallIds :
    /\ b < c /\ c < d
    /\ calls[b].method = "insert" /\ calls[b].arg = OrderItem
    /\ CallOutcome(b) = Fulfilled(PutOutput)
    /\ calls[c].method = "remove" /\ CallOutcome(c) = Fulfilled(DeleteOutput)
    /\ calls[d].method = "get" /\ calls[d].arg = OrderItem
    /\ CallOutcome(d) = Fulfilled(GetOutput)

\* ------------------------------------------- claims about missing arguments
\* The operation of the client that a method of the fixture calls.
ClientOp(method) ==
  CASE method = "insert" -> "put"
    [] method = "remove" -> "delete"
    [] OTHER -> "get"

\* C19: a call of insert, remove or get with null or undefined returns the
\* promise of the one request it issued, so it did not throw; that request
\* goes to the fixture's client with the operation of the method and the
\* fixture's tableName, and carries the null or undefined it was given as Item
\* (insert) or Key (remove, get), getKey giving back null for null and
\* undefined for undefined.
C19_NoValidation ==
  \A c \in CallIds :
    (calls[c].method \in {"insert", "remove", "get"}
     /\ calls[c].arg \in {Null, Undefined}) =>
      LET f == calls[c].fixture
          r == requests[calls[c].first]
      IN /\ calls[c].last = calls[c].first
         /\ calls[c].returns = calls[c].first
         /\ r.client = db[f]
         /\ r.op = ClientOp(calls[c].method)
         /\ r.params.TableName = tableName[f]
         /\ calls[c].method = "insert" =>
              DOMAIN r.params = {"TableName", "Item"} /\ r.params.Item = calls[c].arg
         /\ calls[c].method # "insert" =>
              /\ DOMAIN r.params = {"TableName", "Key"}
              /\ r.params.Key = calls[c].arg
              /\ getKey(calls[c].arg) = calls[c].arg

\* remove(null) and get(undefined) were called on a fixture and their requests
\* answered.
C19_Witness ==
  \E c, d \in CallIds :
    /\ calls[c].fixture = "simpleFx" /\ calls[d].fixture = "simpleFx"
    /\ calls[c].method = "remove" /\ calls[c].arg = Null
    /\ calls[d].method = "get" /\ calls[d].arg = Undefined
    /\ requests[Req(c)].params.Key = Null
    /\ requests[Req(d)].params.Key = Undefined
    /\ promises[Req(c)] # Pending
    /\ promises[Req(d)] # Pending

\* ------------------------------------------------ claims about construction
\* C18: a construction builds one client more, from the connConfig it was
\* given, and keeps its document client as db; it stores the tableName it was
\* given; it issues no request and settles none; it leaves the fixtures built
\* before as they were; and a fixture not built yet can be constructed with
\* the empty configuration.
C18_Construction ==
  /\ [](\A f \in Fixtures \ Built : \A name \in TableNames :
          ENABLED Construct(f, EmptyConfig, name))
  /\ [][IsCallOf({"constructor"}) =>
         LET c == calls'[Len(calls')]
             f == c.fixture
         IN /\ Len(clients') = Len(clients) + 1
            /\ SubSeq(clients', 1, Len(clients)) = clients
            /\ clients'[Len(clients')].config = c.arg.connConfig
            /\ db'[f] = clients'[Len(clients')]
            /\ \A i \in 1..Len(clients) : clients[i].client # db'[f].client
            /\ tableName'[f] = c.arg.tableName
            /\ requests' = requests
            /\ promises' = promises
            /\ \A g \in Built : /\ tableName'[g] = tableName[g]
                                /\ db'[g] = db[g]
                                /\ data'[g] = data[g]]_vars

\* A fixture was constructed with the empty configuration after another had
\* issued a request, and a third with the configuration of the tests.
C18_Witness ==
  \E c, d, e \in CallIds :
    /\ c < d /\ d < e
    /\ calls[c].method = "constructor" /\ calls[c].arg.connConfig = ConnConfig
    /\ calls[d].method = "insert"
    /\ calls[e].method = "constructor" /\ calls[e].arg.connConfig = EmptyConfig
    /\ db[calls[e].fixture].config = EmptyConfig
    /\ tableName[calls[e].fixture] = MissingTable
    /\ Len(clients) = 2
    /\ Len(requests) = 1

\* --------------------------------------------------- claims about overwriting
\* Calls c and d are fulfilled inserts on one fixture of items with the same
\* key, the store applied d after c with no other write to the row in between,
\* and none since.
Overwrites(c, d) ==
  /\ calls[c].method = "insert" /\ calls[d].method = "insert"
  /\ calls[c].fixture = calls[d].fixture
  /\ CallOutcome(c).state = "fulfilled" /\ CallOutcome(d).state = "fulfilled"
  /\ WasServed(c) /\ WasServed(d)
  /\ RowKey(CallTable(c), calls[c].arg) = RowKey(CallTable(c), calls[d].arg)
  /\ ServedNextOnRow(c, d, CallTable(c), RowKey(CallTable(c), calls[c].arg))
  /\ LastOnRow(d, CallTable(c), RowKey(CallTable(c), calls[c].arg))

\* C21: after a successful insert the table holds the item under its key, and
\* after two successful inserts of items with the same key the row under that
\* key is the second item alone, as it was passed.
C21_Overwrite ==
  \A c, d \in CallIds :
    /\ (/\ calls[d].method = "insert"
        /\ CallOutcome(d).state = "fulfilled"
        /\ LastOnRow(d, CallTable(d), RowKey(CallTable(d), calls[d].arg)))
       => calls[d].arg \in tables[CallTable(d)]
    /\ Overwrites(c, d) =>
         RowsAt(tables, CallTable(d), RowKey(CallTable(d), calls[d].arg))
           = {calls[d].arg}

\* The order with its amount was inserted, and then its bare key was inserted
\* over it: the row has no amount.
C21_Witness ==
  \E c, d \in CallIds :
    /\ Overwrites(c, d)
    /\ calls[c].arg = OrderItem
    /\ calls[d].arg = OrderKey
    /\ tables[CompositeTable] = {OrderKey}

\* ------------------------------------------------ claims about concurrent calls
\* The rows of a table with key attribute id after call c alone is applied to
\* rows: an insert replaces the row of the item's id by the item, a remove
\* drops the row of the id, a get changes nothing.
AppliedTo(c, rows) ==
  LET others == {row \in rows : Prop(row, "id") # Prop(calls[c].arg, "id")}
  IN CASE calls[c].method = "insert" -> others \cup {calls[c].arg}
       [] calls[c].method = "remove" -> others
       [] OTHER -> rows

\* The rows after the first n calls are applied one after another, in the
\* order they were made, to the rows the test put.
RECURSIVE OneAfterAnother(_)
OneAfterAnother(n) ==
  IF n = 0 THEN InitialRows ELSE AppliedTo(n, OneAfterAnother(n - 1))

\* C22: when every request of a batch of concurrent calls on keys of their own
\* has been answered, in whatever order, the table is what applying the calls
\* one after another gives: every inserted item is there, the removed rows are
\* not, the other rows are as the test put them; the other table is untouched.
C22_Independent ==
  AllSettled =>
    /\ tables[SimpleTable] = OneAfterAnother(Len(calls))
    /\ tables[CompositeTable] = {}

\* An insert over a row, a remove of the other row and an insert of a new row
\* were made at once and answered in the reverse order.
C22_Witness ==
  /\ Len(calls) = 3
  /\ calls[1].method = "insert" /\ calls[1].arg = NewRow(1)
  /\ calls[2].method = "remove" /\ calls[2].arg = RowId(2)
  /\ calls[3].method = "insert" /\ calls[3].arg = NewRow(3)
  /\ served = <<3, 2, 1>>
  /\ tables[SimpleTable] = {NewRow(1), NewRow(3)}

\* ------------------------------------------------- claims about the fields
\* C23: whatever calls of insert, remove, get, getKey, addData, provision and
\* cleanup were made, fulfilled or rejected, tableName and db of every fixture
\* are the values its constructor set.
C23_FieldsImmutable ==
  \A f \in Fixtures :
    /\ tableName[f] = DynamoFx(ConnConfig, TableArg(f), f).tableName
    /\ db[f] = DynamoFx(ConnConfig, TableArg(f), f).db

\* A remove was rejected and a cleanup resolved on one fixture, and getKey
\* was called.
C23_Witness ==
  \E c, d \in CallIds :
    /\ calls[c].fixture = "simpleFx" /\ calls[d].fixture = "simpleFx"
    /\ calls[c].method = "remove" /\ promises[Req(c)].state = "rejected"
    /\ calls[d].method = "cleanup" /\ calls[d].cleared
    /\ KeyCalled

\* ------------------------------------------- claims about a call's request
\* C24: every call of insert, remove or get has issued one request, a put, a
\* delete or a get on the fixture's client, and no request exists besides
\* these, so none was sent again after a failure; the promise the call
\* returned is that request's promise, so the call is pending, fulfilled or
\* rejected exactly as its request is, with the same value or error.
C24_OneRequestOwnPromise ==
  /\ Len(requests) = Len(calls)
  /\ \A c \in CallIds :
       calls[c].method \in {"insert", "remove", "get"} =>
         /\ calls[c].last = calls[c].first
         /\ calls[c].returns = calls[c].first
         /\ requests[calls[c].first].op = ClientOp(calls[c].method)
         /\ requests[calls[c].first].client = db[calls[c].fixture]
         /\ CallOutcome(c) = promises[calls[c].first]

\* An insert failed in transit and stays rejected with that error while a
\* get made after it is pending: two calls, two requests.
C24_Witness ==
  \E c, d \in CallIds :
    /\ c < d
    /\ calls[c].method = "insert"
    /\ CallOutcome(c) = Rejected(NetworkError)
    /\ calls[d].method = "get"
    /\ CallOutcome(d) = Pending
    /\ Len(requests) = 2

\* ------------------------------------------------ claims about other rows
\* C25: when the store answers the request of a call remove(key), every row
\* that was in a table and is not the row of getKey(key) in the fixture's
\* table is in that table afterwards, and no table has a row it had not.
C25_RemoveOnlyAddressed ==
  [][\A c \in CallIds :
       (/\ calls[c].method = "remove"
        /\ promises[Req(c)] = Pending
        /\ promises'[Req(c)] # Pending)
       => \A t \in ExistingTables :
            /\ tables'[t] \subseteq tables[t]
            /\ \A row \in tables[t] :
                 (t # CallTable(c) \/ RowKey(t, row) # getKey(calls[c].arg))
                   => row \in tables'[t]]_vars

\* A remove took the first row away from beside a row the test put and a row
\* inserted before; both are still there.
C25_Witness ==
  \E c, d \in CallIds :
    /\ calls[c].method = "insert" /\ calls[c].arg = NewRow(3)
    /\ calls[d].method = "remove" /\ calls[d].arg = RowId(1)
    /\ WasServed(c) /\ WasServed(d)
    /\ ServedPos(Req(c)) < ServedPos(Req(d))
    /\ CallOutcome(d) = Fulfilled(DeleteOutput)
    /\ tables[SimpleTable] = {InitialRow(2), NewRow(3)}

\* ------------------------------------------- claims about cleanup's requests
\* The key the rules of getKey name for an item: its partitionKey and sortKey
\* when it has both, else its id when it has one, else the item itself.
KeyByShape(x) ==
  IF HasComposite(x) THEN CompositeKey(x)
  ELSE IF Has(x, "id") THEN IdKey(x)
  ELSE x

\* C26: a call of cleanup issues one request for each item tracked when it is
\* made, in order: a delete on the fixture's client against the fixture's
\* tableName whose Key is getKey of the item, that is the partitionKey/sortKey
\* or id subset when the item has one, else the whole item.
C26_CleanupThroughRemove ==
  \A c \in CallIds :
    calls[c].method = "cleanup" =>
      LET f == calls[c].fixture
          items == calls[c].before
      IN /\ calls[c].last - calls[c].first + 1 = Len(items)
         /\ \A k \in 1..Len(items) :
              /\ requests[calls[c].first + k - 1] =
                   Request(db[f], "delete",
                           [TableName |-> tableName[f], Key |-> getKey(items[k])])
              /\ requests[calls[c].first + k - 1].params.Key = KeyByShape(items[k])

\* cleanup was called on a fixture that tracked an item with an id and an
\* amount, an item with both key shapes, and an item with no key.
C26_Witness ==
  \E c \in CallIds :
    /\ calls[c].method = "cleanup"
    /\ calls[c].before =
         <<Item({"id", "amount"}), Item({"id", "partitionKey", "sortKey"}),
           Item({"amount"})>>
    /\ requests[calls[c].first].params.Key = Item({"id"})
    /\ requests[calls[c].first + 1].params.Key = Item({"partitionKey", "sortKey"})
    /\ requests[calls[c].first + 2].params.Key = Item({"amount"})

\* ------------------------------------------- claims about overlapping writes
\* The row a write call leaves under its key when it is applied: the item of
\* an insert, whole, and nothing for a remove.
Leaves(c) == IF calls[c].method = "insert" THEN {calls[c].arg} ELSE {}

\* Calls c and d are the two writes the store applied to row key of table t.
TwoWrites(c, d, t, key) ==
  /\ c < d
  /\ calls[c].method \in {"insert", "remove"}
  /\ calls[d].method \in {"insert", "remove"}
  /\ CallTable(c) = t /\ CallTable(d) = t
  /\ WritesRow(Req(c), t, key) /\ WritesRow(Req(d), t, key)
  /\ WasServed(c) /\ WasServed(d)
  /\ \A k \in 1..Len(served) :
       WritesRow(served[k], t, key) => served[k] \in {Req(c), Req(d)}

\* C27: when two inserts, or an insert and a remove, of one key were both
\* applied, in whichever order the store answered them, the row under the key
\* is what the write answered last leaves: one of the two items whole, or
\* nothing, and never attributes of both.
C27_LastWriteWins ==
  \A c, d \in CallIds :
    LET t == CallTable(c)
        key == IF calls[c].method = "insert" THEN RowKey(t, calls[c].arg)
               ELSE getKey(calls[c].arg)
    IN TwoWrites(c, d, t, key) =>
         /\ RowsAt(tables, t, key) \in {Leaves(c), Leaves(d)}
         /\ RowsAt(tables, t, key) =
              IF ServedPos(Req(c)) > ServedPos(Req(d)) THEN Leaves(c)
              ELSE Leaves(d)

\* An item with an amount was inserted, then its bare key was inserted while
\* the first insert was pending; the store answered the second insert first,
\* and the row is the first item, whole.
C27_Witness ==
  \E c, d \in CallIds :
    /\ c < d
    /\ TwoWrites(c, d, SimpleTable, Item({"id"}))
    /\ calls[c].method = "insert" /\ calls[c].arg = Item({"id", "amount"})
    /\ calls[d].method = "insert" /\ calls[d].arg = Item({"id"})
    /\ ServedPos(Req(d)) < ServedPos(Req(c))
    /\ tables[SimpleTable] = {Item({"id", "amount"})}

\* --------------------------------------------- claims about untracked rows
\* An item with key key of table t was passed to addData or provision on a
\* fixture of that table.
PassedToTracking(t, key) ==
  \E e \in CallIds :
    /\ CallTable(e) = t
    /\ \/ calls[e].method = "addData" /\ RowKey(t, calls[e].arg) = key
       \/ /\ calls[e].method = "provision"
          /\ \E k \in 1..Len(calls[e].arg) : RowKey(t, calls[e].arg[k]) = key

\* insert or remove calls other than b wrote the row only before b did.
NotRewritten(b, t, key) ==
  \A e \in CallIds \ {b} :
    (calls[e].method \in {"insert", "remove"} /\ WritesRow(Req(e), t, key))
      => (WasServed(b) /\ ServedPos(Req(e)) < ServedPos(Req(b)))

\* C28: when cleanup has resolved, a row that a successful insert wrote before
\* and that no later insert or remove call rewrote is in the table as it was
\* passed, unless an item with its key was passed to addData or provision.
C28_CleanupOnlyTracked ==
  \A b, c \in CallIds :
    LET t == CallTable(b)
        key == RowKey(t, calls[b].arg)
    IN (/\ b < c
        /\ calls[b].method = "insert"
        /\ CallOutcome(b).state = "fulfilled"
        /\ calls[c].method = "cleanup"
        /\ CallTable(c) = t
        /\ JustResolved(c)
        /\ NotRewritten(b, t, key)
        /\ ~PassedToTracking(t, key))
       => RowsAt(tables, t, key) = {calls[b].arg}

\* An item was inserted, another item was provisioned, and cleanup removed the
\* one tracked item: the table holds the inserted item alone.
C28_Witness ==
  \E b, e, c \in CallIds :
    /\ b < e /\ e < c
    /\ calls[b].method = "insert" /\ calls[b].arg = LifeB
    /\ CallOutcome(b).state = "fulfilled"
    /\ calls[e].method = "provision" /\ calls[e].arg = <<LifeA>>
    /\ calls[e].fixture = "simpleFx"
    /\ calls[c].method = "cleanup" /\ calls[c].before = <<LifeA>>
    /\ JustResolved(c)
    /\ requests[calls[c].first].op = "delete"
    /\ tables[SimpleTable] = {LifeB}

\* ----------------------------------------- claims about the order of requests
\* The request the client is handed by call c of insert, remove or get.
RequestOf(c) ==
  LET f == calls[c].fixture
  IN IF calls[c].method = "insert"
     THEN Request(db[f], "put",
                  [TableName |-> tableName[f], Item |-> calls[c].arg])
     ELSE Request(db[f], ClientOp(calls[c].method),
                  [TableName |-> tableName[f], Key |-> getKey(calls[c].arg)])

\* C29: of calls of insert, remove and get made without awaiting, on one
\* fixture or on several, the i-th request the clients have seen is the request
\* of the i-th call, and no call has returned with its request still to come.
C29_RequestsInCallOrder ==
  /\ \A i \in 1..Len(requests) :
       /\ i \in CallIds
       /\ calls[i].first = i
       /\ requests[i] = RequestOf(i)
  /\ \A c \in CallIds : c \in 1..Len(requests)

\* A remove on one fixture and then an insert on another were called before
\* either was answered, and the insert was answered first: the first request
\* is the delete, the second the put.
C29_Witness ==
  /\ Len(calls) = 2
  /\ calls[1].method = "remove" /\ calls[1].fixture = "compositeFx"
  /\ calls[2].method = "insert" /\ calls[2].fixture = "simpleFx"
  /\ requests[1].op = "delete" /\ requests[1].client = db["compositeFx"]
  /\ requests[2].op = "put" /\ requests[2].client = db["simpleFx"]
  /\ promises[1] = Pending
  /\ promises[2] # Pending

\* ------------------------------------------------ claims about getKey twice
\* C30: getKey of what getKey returned is that value again, for every input,
\* so remove and get of a key that getKey produced send that key as Key, and
\* a call of getKey on the key the call before it returned returns it.
C30_GetKeyIdempotent ==
  /\ [](KeyCalled =>
          /\ getKey(keyOut) = keyOut
          /\ \A f \in Fixtures :
               /\ remove(f, keyOut).issued[1].params.Key = keyOut
               /\ get(f, keyOut).issued[1].params.Key = keyOut)
  /\ [][(KeyCalled /\ keyIn' = keyOut) => keyOut' = keyOut]_vars

\* getKey was called on the key it had cut out of an item with other
\* attributes, and returned the key.
C30_Witness ==
  /\ KeyCalled
  /\ keyIn = Item({"partitionKey", "sortKey"})
  /\ keyOut = keyIn
  /\ getKey(Item({"partitionKey", "sortKey", "id", "amount"})) = keyIn
  /\ getKey(Item({"partitionKey", "sortKey", "id", "amount"}))
       # Item({"partitionKey", "sortKey", "id", "amount"})
====
